---- MODULE Spec2Model ----
(***************************************************************************)
(* Model of the voting-bot poll service (internal/service) and its         *)
(* Tarantool storage adapter (internal/db/tarantool.go).                   *)
(*                                                                         *)
(* The store holds untyped tuples of tagged values, as Tarantool returns   *)
(* them; the adapter encodes a typed Poll into such a tuple and decodes a  *)
(* tuple back into a Poll.  Service calls are made by concurrent callers;  *)
(* a call that reads and then writes is two steps, so that other callers   *)
(* can run between its GetPoll and its UpdatePoll/DeletePoll.              *)
(*                                                                         *)
(* Around the Service: the Command Router (internal/mattermost/client.go), *)
(* whose handlers call whole Service methods, the argument parser of the   *)
(* HTTP ingress (internal/api/handler.go) and the start of the process     *)
(* (cmd/voting-bot/main.go) with the Service's notifier.                   *)
(***************************************************************************)
EXTENDS Integers, Sequences, FiniteSets, TLC

\* ---------------------------------------------------------------- bounds
\* time.Now().Unix() is read as some value of 1..MaxTime
MaxTime == 1
\* the texts handed to parseCommandArgs have at most MaxText characters
MaxText == 4
\* the channel keeps count of at most MaxPosts delivered messages
MaxPosts == 2
\* the space "polls" holds at most MaxRows records
MaxRows == 1001

Range(f) == {f[x] : x \in DOMAIN f}

\* -------------------------------------------------------------- constants
\* main's loop runs while attempts <= 3 and sleeps 2 seconds between attempts
MaxAttempts == 3
RetryWait == 2
\* ListPolls selects with offset 0 and limit 1000
SelectLimit == 1000

\* ---------------------------------------------------------------- inputs
\* concurrent callers of the Service
Procs == {"c1", "c2"}
\* user identifiers a call may carry
Users == {"user_a", "bob"}
\* ids uuid.New() hands out, in order
IdNames == <<"uuid1">>
FreshIds == Range(IdNames)
\* creation timestamp of the seeded poll
SeedCreatedAt == 1682514732
PollIds == {"poll1"} \cup FreshIds
\* option strings a vote call may carry ("Mauve" is an option of no poll)
VoteOptions == {"Red", "Green", "Mauve"}
\* titles and options sequences a createPoll call may carry
Titles == {"", "Lunch?"}
OptionSeqs == {<<"Red">>, <<"Green", "Red">>}
Times == 1..MaxTime

\* ------------------------------------------------- untyped stored values
Str(s) == [t |-> "string", v |-> s]
Num(n) == [t |-> "unsigned", v |-> n]
Bool(b) == [t |-> "boolean", v |-> b]
Arr(a) == [t |-> "array", v |-> a]
Map(m) == [t |-> "map", v |-> m]
Nil == [t |-> "nil", v |-> "nil"]

\* the absent tuple (Select returned no row)
NoTuple == <<>>

\* the empty Go map / the zero-length slice
EmptyMap == <<>>

\* convertToStringSlice: nil unless the value is an array; a non-string
\* element makes the type assertion panic (see DecodePoll)
convertToStringSlice(value) ==
    IF value.t = "array"
      THEN [nil |-> FALSE, s |-> [i \in DOMAIN value.v |-> value.v[i].v]]
      ELSE [nil |-> TRUE, s |-> <<>>]

\* convertToMapStringString: nil unless the value is a map; entries whose
\* key or value is not a string are skipped
convertToMapStringString(value) ==
    IF value.t = "map"
      THEN LET keep == {k \in DOMAIN value.v :
                          k.t = "string" /\ value.v[k].t = "string"}
           IN [nil |-> FALSE,
               m |-> [u \in {k.v : k \in keep} |-> value.v[Str(u)].v]]
      ELSE [nil |-> TRUE, m |-> EmptyMap]

\* the typed entity model.Poll; a nil slice / nil map is flagged, since Go
\* tells it from an empty one when it is encoded
MkPoll(id, title, options, optionsNil, createdBy, createdAt, isActive, votes, votesNil) ==
    [ID |-> id, Title |-> title, Options |-> options, OptionsNil |-> optionsNil,
     CreatedBy |-> createdBy, CreatedAt |-> createdAt, IsActive |-> isActive,
     Votes |-> votes, VotesNil |-> votesNil]

\* some type assertion of GetPoll's struct literal fails on this tuple
Panics(data) ==
    \/ data[1].t # "string"
    \/ data[2].t # "string"
    \/ data[3].t = "array" /\ \E i \in DOMAIN data[3].v : data[3].v[i].t # "string"
    \/ data[4].t # "string"
    \/ data[5].t # "unsigned"
    \/ data[6].t # "boolean"

\* the struct literal of GetPoll, for a tuple on which nothing panics
DecodeFields(data) ==
    LET o == convertToStringSlice(data[3])
        m == convertToMapStringString(data[7])
    IN MkPoll(data[1].v, data[2].v, o.s, o.nil, data[4].v, data[5].v,
              data[6].v, m.m, m.nil)

\* TarantoolStorage.GetPoll on the tuple stored under an id:
\* kind is "notfound", "invalid", "panic" or "ok"; poll is a set holding
\* the decoded Poll when kind = "ok"
DecodePoll(data) ==
    IF data = NoTuple THEN [kind |-> "notfound", poll |-> {}]
    ELSE IF Len(data) < 7 THEN [kind |-> "invalid", poll |-> {}]
    ELSE IF Panics(data) THEN [kind |-> "panic", poll |-> {}]
    ELSE [kind |-> "ok", poll |-> {DecodeFields(data)}]

\* EncodePoll with the options written in reverse order
EncodePoll_Reversed(poll) ==
    << Str(poll.ID), Str(poll.Title),
       IF poll.OptionsNil THEN Nil
         ELSE Arr([i \in DOMAIN poll.Options |->
                     Str(poll.Options[Len(poll.Options) + 1 - i])]),
       Str(poll.CreatedBy), Num(poll.CreatedAt), Bool(poll.IsActive),
       IF poll.VotesNil THEN Nil
         ELSE Map([k \in {Str(u) : u \in DOMAIN poll.Votes} |-> Str(poll.Votes[k.v])]) >>

\* the tuple CreatePoll and UpdatePoll hand to Insert / Replace
EncodePoll(poll) ==
    << Str(poll.ID), Str(poll.Title),
       IF poll.OptionsNil THEN Nil
         ELSE Arr([i \in DOMAIN poll.Options |-> Str(poll.Options[i])]),
       Str(poll.CreatedBy), Num(poll.CreatedAt), Bool(poll.IsActive),
       IF poll.VotesNil THEN Nil
         ELSE Map([k \in {Str(u) : u \in DOMAIN poll.Votes} |-> Str(poll.Votes[k.v])]) >>

\* the format of space "polls": the field types Tarantool enforces on
\* insert and replace
FormatOK(data) ==
    /\ Len(data) >= 7
    /\ data[1].t = "string"
    /\ data[2].t = "string"
    /\ data[3].t = "array"
    /\ data[4].t = "string"
    /\ data[5].t = "unsigned"
    /\ data[6].t = "boolean"
    /\ data[7].t = "map"

\* the poll init.lua inserts when it creates the space
SeedTuple ==
    << Str("poll1"), Str("Favorite color?"),
       Arr(<<Str("Red"), Str("Green"), Str("Blue")>>),
       Str("user_a"), Num(SeedCreatedAt), Bool(TRUE),
       Map([k \in {Str("Red"), Str("Green"), Str("Blue")} |-> Num(0)]) >>

\* ----------------------------------------------------------------- state
VARIABLES
    store,      \* space "polls": id -> stored tuple, NoTuple when absent
    created,    \* number of ids uuid.New() has handed out
    pc,         \* per caller: "idle" or the storage write it is about to do
    call,       \* per caller: the arguments of its current or last call
    poll,       \* per caller: the handler's local *model.Poll (a set, {} = none)
    err,        \* per caller: the error its last finished call returned
    ret,        \* per caller: the *model.Poll CreatePoll returned ({} = nil)
    results,    \* per caller: the map GetResults returned ({} = nil)
    seen,       \* per caller q: the callers that had done their GetPoll and
                \* not yet their write when q did its last GetPoll (history)
    actor,      \* the caller that took the last step (history)
    ctx,        \* per caller: the context it passes to its calls is cancelled
    cmd,        \* per caller: the last command it sent to the Command Router
                \* (command string, number of arguments), the handler that ran
                \* for it, the Service methods that handler called and the
                \* error the last of them returned (history)
    reply,      \* per caller: what the Command Router answered
    parseIn,    \* the text last handed to parseCommandArgs
    parseOut,   \* the arguments parseCommandArgs returned for it
    boot,       \* main: its position, the loop counter attempts, the err of
                \* the last connection attempt, the number of attempts made
                \* and the sleeps done so far (history), the Service
                \* constructed or not, the exit status
    notify,     \* the Service's notifier field, what the last NotifyChannel
                \* returned, the number of messages delivered to the channel
    scan        \* a space "polls" of any size: the number of its records
                \* (all well-formed), and for the ListPolls call made last,
                \* with no insert since, the number of polls it returned

\* the state of the Command Router's callers
routerVars == <<cmd, reply>>

\* the state of parseCommandArgs' caller
parseVars == <<parseIn, parseOut>>

\* the state of the process around the Service
mainVars == <<boot, notify>>

\* the state no Service or adapter method touches
aux == <<ctx, routerVars, parseVars, mainVars, scan>>

vars == <<store, created, pc, call, poll, err, ret, results, seen, actor, aux>>

\* the arguments of a call, and HandleVote's locals existingOption and voted
NoCall == [op |-> "none", pollID |-> "", option |-> "", userID |-> "",
           title |-> "", options |-> <<>>, existingOption |-> "", voted |-> FALSE]

\* no command sent yet, nothing answered yet; a text and an error message
\* are kept as the sequence of their parts, <<>> being "" and the nil error
NoCmd == [command |-> <<>>, nargs |-> 0, handler |-> "none", svc |-> <<>>,
          svcErr |-> "nil"]
NoReply == [text |-> <<>>, err |-> <<>>, status |-> "none"]

\* main about to enter its connection loop
NoBoot == [at |-> "connect", attempts |-> 1, tried |-> 0, err |-> "nil",
           slept |-> <<>>, service |-> FALSE, exit |-> "none"]
\* an empty space, no ListPolls call made
NoScan == [rows |-> 0, listed |-> FALSE, polls |-> 0]
\* NewService(tarantoolStore, nil): no notifier, nothing posted
NoNotify == [notifier |-> "nil", ret |-> "none", posted |-> 0]

The(S) == CHOOSE x \in S : TRUE

Init ==
    /\ store = [id \in PollIds |-> IF id = "poll1" THEN SeedTuple ELSE NoTuple]
    /\ created = 0
    /\ pc = [p \in Procs |-> "idle"]
    /\ call = [p \in Procs |-> NoCall]
    /\ poll = [p \in Procs |-> {}]
    /\ err = [p \in Procs |-> "none"]
    /\ ret = [p \in Procs |-> {}]
    /\ results = [p \in Procs |-> {}]
    /\ seen = [p \in Procs |-> {}]
    /\ actor = "none"
    /\ ctx = [p \in Procs |-> FALSE]
    /\ cmd = [p \in Procs |-> NoCmd]
    /\ reply = [p \in Procs |-> NoReply]
    /\ parseIn = <<>>
    /\ parseOut = <<>>
    /\ boot = NoBoot
    /\ notify = NoNotify
    /\ scan = NoScan

\* ------------------------------------------------------ storage back end
\* connPool.Insert: rejects an existing primary key and a tuple that does
\* not fit the space format
InsertOK(s, data) == FormatOK(data) /\ s[data[1].v] = NoTuple
\* connPool.Replace: inserts the tuple, or replaces the one with its key
ReplaceOK(s, data) == FormatOK(data)
PutTuple(s, data) == [s EXCEPT ![data[1].v] = data]
\* connPool.Delete: removes the tuple with the key, if there is one
DeleteTuple(s, id) == [s EXCEPT ![id] = NoTuple]

\* TarantoolStorage.CreatePoll: stamps a zero CreatedAt, then Insert;
\* up = FALSE is a request the back end does not answer
StorageCreatePoll(s, pl, now, up) ==
    LET stamped == IF pl.CreatedAt = 0 THEN [pl EXCEPT !.CreatedAt = now] ELSE pl
        ok == up /\ InsertOK(s, EncodePoll(stamped))
    IN [ok |-> ok,
        store |-> IF ok THEN PutTuple(s, EncodePoll(stamped)) ELSE s,
        poll |-> stamped]

\* UpdatePoll that keeps the stored votes the written poll does not have
StorageUpdatePoll_Merge(s, pl, up) ==
    LET old == DecodePoll(s[pl.ID])
        kept == IF old.kind = "ok" THEN The(old.poll).Votes ELSE EmptyMap
        merged == [pl EXCEPT !.Votes = [u \in DOMAIN kept \cup DOMAIN pl.Votes |->
                                          IF u \in DOMAIN pl.Votes THEN pl.Votes[u]
                                                                   ELSE kept[u]]]
        ok == up /\ ReplaceOK(s, EncodePoll(merged))
    IN [ok |-> ok, store |-> IF ok THEN PutTuple(s, EncodePoll(merged)) ELSE s]

\* TarantoolStorage.UpdatePoll: Replace of the whole tuple
StorageUpdatePoll(s, pl, up) ==
    LET ok == up /\ ReplaceOK(s, EncodePoll(pl))
    IN [ok |-> ok, store |-> IF ok THEN PutTuple(s, EncodePoll(pl)) ELSE s]

\* a DeletePoll that reports success and removes nothing
StorageDeletePoll_Noop(s, id, up) ==
    [ok |-> up, store |-> s]

\* a DeletePoll that fails when the id has no record
StorageDeletePoll_Strict(s, id, up) ==
    [ok |-> up /\ s[id] # NoTuple, store |-> IF up THEN DeleteTuple(s, id) ELSE s]

\* TarantoolStorage.DeletePoll
StorageDeletePoll(s, id, up) ==
    [ok |-> up, store |-> IF up THEN DeleteTuple(s, id) ELSE s]

\* TarantoolStorage.GetPoll; up = FALSE is a failing Select
StorageGetPoll(s, id, up) ==
    IF up THEN DecodePoll(IF id \in DOMAIN s THEN s[id] ELSE NoTuple)
    ELSE [kind |-> "error", poll |-> {}]

\* TarantoolStorage.ListPolls with convertResponseToPolls: rows shorter than
\* 7 fields are skipped, a failing type assertion panics, every other row is
\* decoded as GetPoll decodes it (the store holds fewer rows than the
\* Select limit)
StorageListPolls(s, up) ==
    LET rows == {s[id] : id \in DOMAIN s} \ {NoTuple}
        long == {data \in rows : Len(data) >= 7}
    IN IF ~up THEN [kind |-> "error", polls |-> {}]
       ELSE IF \E data \in long : Panics(data) THEN [kind |-> "panic", polls |-> {}]
       ELSE [kind |-> "ok", polls |-> {DecodeFields(data) : data \in long}]

\* ------------------------------------------------------- service helpers
\* the error a Service method returns when its GetPoll did not yield a poll
GetError(kind) ==
    CASE kind = "notfound" -> "ErrPollNotFound"
      [] kind = "panic" -> "panic"
      [] OTHER -> "failed to get poll"

\* an option test that accepts every option
optionValid_Any(pl, option) == TRUE

\* an option test that only rejects the empty string
optionValid_NonEmpty(pl, option) == option # ""

\* the loop of HandleVote over poll.Options
optionValid(pl, option) == \E i \in DOMAIN pl.Options : pl.Options[i] = option

\* an authorization test that lets every user through
NotCreator_Never(pl, userID) == FALSE

\* the authorization test of EndPoll and DeletePoll
NotCreator(pl, userID) == pl.CreatedBy # userID

\* a vote recorded in a map made anew, without the votes of the others
SetVote_Alone(pl, userID, option) ==
    [pl EXCEPT !.VotesNil = FALSE,
               !.Votes = [u \in {userID} |-> option]]

\* a vote that is only recorded when the user has none yet
SetVote_KeepFirst(pl, userID, option) ==
    [pl EXCEPT !.VotesNil = FALSE,
               !.Votes = [u \in DOMAIN pl.Votes \cup {userID} |->
                            IF u \in DOMAIN pl.Votes THEN pl.Votes[u] ELSE option]]

\* poll.Votes[userID] = option, on a map made first when it is nil
SetVote(pl, userID, option) ==
    [pl EXCEPT !.VotesNil = FALSE,
               !.Votes = [u \in DOMAIN pl.Votes \cup {userID} |->
                            IF u = userID THEN option ELSE pl.Votes[u]]]

\* a tally without the initial zero entries
Tally_VotedOnly(pl) ==
    [o \in Range(pl.Votes) |->
        Cardinality({u \in DOMAIN pl.Votes : pl.Votes[u] = o})]

\* the tally of GetResults: every option starts at 0, every vote adds 1 to
\* the entry of its value
Tally(pl) ==
    [o \in Range(pl.Options) \cup Range(pl.Votes) |->
        Cardinality({u \in DOMAIN pl.Votes : pl.Votes[u] = o})]

\* a caller finishes a call
Finish(p, c, e) ==
    /\ actor' = p
    /\ pc' = [pc EXCEPT ![p] = "idle"]
    /\ call' = [call EXCEPT ![p] = c]
    /\ poll' = [poll EXCEPT ![p] = {}]
    /\ err' = [err EXCEPT ![p] = e]
    /\ UNCHANGED aux

\* a caller has read its poll and goes on to its storage write
Proceed(p, c, pl, next) ==
    /\ actor' = p
    /\ pc' = [pc EXCEPT ![p] = next]
    /\ call' = [call EXCEPT ![p] = c]
    /\ poll' = [poll EXCEPT ![p] = {pl}]
    /\ err' = [err EXCEPT ![p] = "none"]
    /\ UNCHANGED aux

\* history: p does a GetPoll now
NoteGet(p) ==
    seen' = [q \in Procs |-> IF q = p THEN {r \in Procs \ {p} : pc[r] # "idle"}
                                      ELSE seen[q] \ {p}]

\* ------------------------------------------------------ Service methods
\* Service.CreatePoll that does not look at the title
CreatePoll_NoTitleCheck(p, title, options, creatorID, now, up) ==
    LET c == [NoCall EXCEPT !.op = "create", !.title = title,
                            !.options = options, !.userID = creatorID]
    IN
    /\ pc[p] = "idle"
    /\ results' = [results EXCEPT ![p] = {}]
    /\ UNCHANGED seen
    /\ IF Len(options) < 2 THEN
          /\ Finish(p, c, "poll must have at least two options")
          /\ ret' = [ret EXCEPT ![p] = {}]
          /\ UNCHANGED <<store, created>>
       ELSE
          /\ created < Len(IdNames)
          /\ LET pl == MkPoll(IdNames[created + 1], title, options, FALSE,
                              creatorID, now, TRUE, EmptyMap, FALSE)
                 r == StorageCreatePoll(store, pl, now, up)
             IN IF r.ok THEN
                  /\ store' = r.store
                  /\ created' = created + 1
                  /\ ret' = [ret EXCEPT ![p] = {r.poll}]
                  /\ Finish(p, c, "nil")
                ELSE
                  /\ ret' = [ret EXCEPT ![p] = {}]
                  /\ Finish(p, c, "failed to create poll")
                  /\ UNCHANGED <<store, created>>

\* Service.CreatePoll
CreatePoll(p, title, options, creatorID, now, up) ==
    LET c == [NoCall EXCEPT !.op = "create", !.title = title,
                            !.options = options, !.userID = creatorID]
    IN
    /\ pc[p] = "idle"
    /\ results' = [results EXCEPT ![p] = {}]
    /\ UNCHANGED seen
    /\ IF title = "" THEN
          /\ Finish(p, c, "empty poll title")
          /\ ret' = [ret EXCEPT ![p] = {}]
          /\ UNCHANGED <<store, created>>
       ELSE IF Len(options) < 2 THEN
          /\ Finish(p, c, "poll must have at least two options")
          /\ ret' = [ret EXCEPT ![p] = {}]
          /\ UNCHANGED <<store, created>>
       ELSE
          /\ created < Len(IdNames)
          /\ LET pl == MkPoll(IdNames[created + 1], title, options, FALSE,
                              creatorID, now, TRUE, EmptyMap, FALSE)
                 r == StorageCreatePoll(store, pl, now, up)
             IN IF r.ok THEN
                  /\ store' = r.store
                  /\ created' = created + 1
                  /\ ret' = [ret EXCEPT ![p] = {r.poll}]
                  /\ Finish(p, c, "nil")
                ELSE
                  /\ ret' = [ret EXCEPT ![p] = {}]
                  /\ Finish(p, c, "failed to create poll")
                  /\ UNCHANGED <<store, created>>

\* Service.HandleVote that tests the option before IsActive
HandleVote_Get_OptionFirst(p, pollID, option, userID, up) ==
    LET c == [NoCall EXCEPT !.op = "vote", !.pollID = pollID,
                            !.option = option, !.userID = userID]
        g == StorageGetPoll(store, pollID, up)
    IN
    /\ pc[p] = "idle"
    /\ ret' = [ret EXCEPT ![p] = {}]
    /\ results' = [results EXCEPT ![p] = {}]
    /\ NoteGet(p)
    /\ UNCHANGED <<store, created>>
    /\ IF g.kind # "ok" THEN Finish(p, c, GetError(g.kind))
       ELSE LET pl == The(g.poll) IN
            IF ~optionValid(pl, option) THEN Finish(p, c, "ErrInvalidOption")
            ELSE IF ~pl.IsActive THEN Finish(p, c, "ErrPollInactive")
            ELSE Proceed(p, [c EXCEPT !.voted = userID \in DOMAIN pl.Votes,
                                      !.existingOption =
                                          IF userID \in DOMAIN pl.Votes
                                            THEN pl.Votes[userID] ELSE ""],
                         SetVote(pl, userID, option), "HandleVote_Update")

\* Service.HandleVote up to its UpdatePoll
HandleVote_Get(p, pollID, option, userID, up) ==
    LET c == [NoCall EXCEPT !.op = "vote", !.pollID = pollID,
                            !.option = option, !.userID = userID]
        g == StorageGetPoll(store, pollID, up)
    IN
    /\ pc[p] = "idle"
    /\ ret' = [ret EXCEPT ![p] = {}]
    /\ results' = [results EXCEPT ![p] = {}]
    /\ NoteGet(p)
    /\ UNCHANGED <<store, created>>
    /\ IF g.kind # "ok" THEN Finish(p, c, GetError(g.kind))
       ELSE LET pl == The(g.poll) IN
            IF ~pl.IsActive THEN Finish(p, c, "ErrPollInactive")
            ELSE IF ~optionValid(pl, option) THEN Finish(p, c, "ErrInvalidOption")
            ELSE Proceed(p, [c EXCEPT !.voted = userID \in DOMAIN pl.Votes,
                                      !.existingOption =
                                          IF userID \in DOMAIN pl.Votes
                                            THEN pl.Votes[userID] ELSE ""],
                         SetVote(pl, userID, option), "HandleVote_Update")

\* Service.HandleVote that notes a failed UpdatePoll and issues it again
HandleVote_Update_Retry(p, up) ==
    LET r == StorageUpdatePoll(store, The(poll[p]), up) IN
    /\ pc[p] = "HandleVote_Update"
    /\ store' = r.store
    /\ IF r.ok THEN Finish(p, call[p], "nil")
               ELSE /\ actor' = p
                    /\ err' = [err EXCEPT ![p] = "failed to update poll"]
                    /\ UNCHANGED <<pc, call, poll, aux>>
    /\ UNCHANGED <<created, ret, results, seen>>

\* Service.HandleVote: its UpdatePoll and return
HandleVote_Update(p, up) ==
    LET r == StorageUpdatePoll(store, The(poll[p]), up) IN
    /\ pc[p] = "HandleVote_Update"
    /\ store' = r.store
    /\ Finish(p, call[p], IF r.ok THEN "nil" ELSE "failed to update poll")
    /\ UNCHANGED <<created, ret, results, seen>>

\* Service.GetResults
GetResults(p, pollID, up) ==
    LET c == [NoCall EXCEPT !.op = "results", !.pollID = pollID]
        g == StorageGetPoll(store, pollID, up)
    IN
    /\ pc[p] = "idle"
    /\ ret' = [ret EXCEPT ![p] = {}]
    /\ NoteGet(p)
    /\ UNCHANGED <<store, created>>
    /\ IF g.kind # "ok" THEN
          /\ Finish(p, c, GetError(g.kind))
          /\ results' = [results EXCEPT ![p] = {}]
       ELSE
          /\ Finish(p, c, "nil")
          /\ results' = [results EXCEPT ![p] = {Tally(The(g.poll))}]

\* Service.FormatPollResults up to its call of GetResults: storage.GetPoll,
\* the poll it yields is the one whose title, status and len(Votes) are
\* rendered
FormatPollResults_Get(p, pollID, up) ==
    LET c == [NoCall EXCEPT !.op = "format", !.pollID = pollID]
        g == StorageGetPoll(store, pollID, up)
    IN
    /\ pc[p] = "idle"
    /\ ret' = [ret EXCEPT ![p] = {}]
    /\ results' = [results EXCEPT ![p] = {}]
    /\ NoteGet(p)
    /\ UNCHANGED <<store, created>>
    /\ IF g.kind # "ok" THEN Finish(p, c, GetError(g.kind))
       ELSE Proceed(p, c, The(g.poll), "FormatPollResults_GetResults")

\* Service.FormatPollResults: its call of GetResults, which reads the poll
\* again, and the rendering; ret keeps the poll of the first read, results
\* the map of GetResults, from which the text is made
FormatPollResults_GetResults(p, up) ==
    LET g == StorageGetPoll(store, call[p].pollID, up) IN
    /\ pc[p] = "FormatPollResults_GetResults"
    /\ UNCHANGED <<store, created, seen>>
    /\ IF g.kind # "ok" THEN
          /\ Finish(p, call[p], GetError(g.kind))
          /\ UNCHANGED <<ret, results>>
       ELSE
          /\ Finish(p, call[p], "nil")
          /\ ret' = [ret EXCEPT ![p] = poll[p]]
          /\ results' = [results EXCEPT ![p] = {Tally(The(g.poll))}]

\* Service.EndPoll that tests IsActive before the creator
EndPoll_Get_InactiveFirst(p, pollID, userID, up) ==
    LET c == [NoCall EXCEPT !.op = "end", !.pollID = pollID, !.userID = userID]
        g == StorageGetPoll(store, pollID, up)
    IN
    /\ pc[p] = "idle"
    /\ ret' = [ret EXCEPT ![p] = {}]
    /\ results' = [results EXCEPT ![p] = {}]
    /\ NoteGet(p)
    /\ UNCHANGED <<store, created>>
    /\ IF g.kind # "ok" THEN Finish(p, c, GetError(g.kind))
       ELSE LET pl == The(g.poll) IN
            IF ~pl.IsActive THEN Finish(p, c, "nil")
            ELSE IF NotCreator(pl, userID) THEN Finish(p, c, "ErrNotAuthorized")
            ELSE Proceed(p, c, [pl EXCEPT !.IsActive = FALSE], "EndPoll_Update")

\* Service.EndPoll without the return for an already inactive poll
EndPoll_Get_AlwaysWrite(p, pollID, userID, up) ==
    LET c == [NoCall EXCEPT !.op = "end", !.pollID = pollID, !.userID = userID]
        g == StorageGetPoll(store, pollID, up)
    IN
    /\ pc[p] = "idle"
    /\ ret' = [ret EXCEPT ![p] = {}]
    /\ results' = [results EXCEPT ![p] = {}]
    /\ NoteGet(p)
    /\ UNCHANGED <<store, created>>
    /\ IF g.kind # "ok" THEN Finish(p, c, GetError(g.kind))
       ELSE LET pl == The(g.poll) IN
            IF NotCreator(pl, userID) THEN Finish(p, c, "ErrNotAuthorized")
            ELSE Proceed(p, c, [pl EXCEPT !.IsActive = FALSE], "EndPoll_Update")

\* Service.EndPoll up to its UpdatePoll
EndPoll_Get(p, pollID, userID, up) ==
    LET c == [NoCall EXCEPT !.op = "end", !.pollID = pollID, !.userID = userID]
        g == StorageGetPoll(store, pollID, up)
    IN
    /\ pc[p] = "idle"
    /\ ret' = [ret EXCEPT ![p] = {}]
    /\ results' = [results EXCEPT ![p] = {}]
    /\ NoteGet(p)
    /\ UNCHANGED <<store, created>>
    /\ IF g.kind # "ok" THEN Finish(p, c, GetError(g.kind))
       ELSE LET pl == The(g.poll) IN
            IF NotCreator(pl, userID) THEN Finish(p, c, "ErrNotAuthorized")
            ELSE IF ~pl.IsActive THEN Finish(p, c, "nil")
            ELSE Proceed(p, c, [pl EXCEPT !.IsActive = FALSE], "EndPoll_Update")

\* Service.EndPoll: its UpdatePoll and return
EndPoll_Update(p, up) ==
    LET r == StorageUpdatePoll(store, The(poll[p]), up) IN
    /\ pc[p] = "EndPoll_Update"
    /\ store' = r.store
    /\ Finish(p, call[p], IF r.ok THEN "nil" ELSE "failed to update poll")
    /\ UNCHANGED <<created, ret, results, seen>>

\* Service.DeletePoll that does not compare the creator
DeletePoll_Get_NoAuth(p, pollID, userID, up) ==
    LET c == [NoCall EXCEPT !.op = "delete", !.pollID = pollID, !.userID = userID]
        g == StorageGetPoll(store, pollID, up)
    IN
    /\ pc[p] = "idle"
    /\ ret' = [ret EXCEPT ![p] = {}]
    /\ results' = [results EXCEPT ![p] = {}]
    /\ NoteGet(p)
    /\ UNCHANGED <<store, created>>
    /\ IF g.kind # "ok" THEN Finish(p, c, GetError(g.kind))
       ELSE Proceed(p, c, The(g.poll), "DeletePoll_Delete")

\* Service.DeletePoll up to its storage DeletePoll
DeletePoll_Get(p, pollID, userID, up) ==
    LET c == [NoCall EXCEPT !.op = "delete", !.pollID = pollID, !.userID = userID]
        g == StorageGetPoll(store, pollID, up)
    IN
    /\ pc[p] = "idle"
    /\ ret' = [ret EXCEPT ![p] = {}]
    /\ results' = [results EXCEPT ![p] = {}]
    /\ NoteGet(p)
    /\ UNCHANGED <<store, created>>
    /\ IF g.kind # "ok" THEN Finish(p, c, GetError(g.kind))
       ELSE LET pl == The(g.poll) IN
            IF NotCreator(pl, userID) THEN Finish(p, c, "ErrNotAuthorized")
            ELSE Proceed(p, c, pl, "DeletePoll_Delete")

\* Service.DeletePoll: its storage DeletePoll and return
DeletePoll_Delete(p, up) ==
    LET r == StorageDeletePoll(store, call[p].pollID, up) IN
    /\ pc[p] = "DeletePoll_Delete"
    /\ store' = r.store
    /\ Finish(p, call[p], IF r.ok THEN "nil" ELSE "failed to delete poll")
    /\ UNCHANGED <<created, ret, results, seen>>

\* Service.GetPoll
GetPoll(p, pollID, up) ==
    LET c == [NoCall EXCEPT !.op = "get", !.pollID = pollID]
        g == StorageGetPoll(store, pollID, up)
    IN
    /\ pc[p] = "idle"
    /\ results' = [results EXCEPT ![p] = {}]
    /\ NoteGet(p)
    /\ UNCHANGED <<store, created>>
    /\ IF g.kind # "ok" THEN
          /\ Finish(p, c, GetError(g.kind))
          /\ ret' = [ret EXCEPT ![p] = {}]
       ELSE
          /\ Finish(p, c, "nil")
          /\ ret' = [ret EXCEPT ![p] = g.poll]

\* Service.ListPolls; the returned polls are kept as a set
ListPolls(p, up) ==
    LET c == [NoCall EXCEPT !.op = "list"]
        l == StorageListPolls(store, up)
    IN
    /\ pc[p] = "idle"
    /\ results' = [results EXCEPT ![p] = {}]
    /\ NoteGet(p)
    /\ UNCHANGED <<store, created>>
    /\ ret' = [ret EXCEPT ![p] = l.polls]
    /\ Finish(p, c, CASE l.kind = "ok" -> "nil"
                      [] l.kind = "panic" -> "panic"
                      [] OTHER -> "failed to list polls")

\* the reading calls callers P may make
Reads(P, Ids, Ups) ==
    \/ \E p \in P, id \in Ids, up \in Ups : GetPoll(p, id, up)
    \/ \E p \in P, up \in Ups : ListPolls(p, up)

\* the calls callers P may make on polls Ids, the back end answering as in Ups
Calls(P, Ids, Creators, Ups) ==
    \/ \E p \in P, title \in Titles, options \in OptionSeqs, u \in Creators,
          now \in Times, up \in Ups : CreatePoll(p, title, options, u, now, up)
    \/ \E p \in P, id \in Ids, o \in VoteOptions, u \in Users, up \in Ups :
          HandleVote_Get(p, id, o, u, up)
    \/ \E p \in P, up \in Ups : HandleVote_Update(p, up)
    \/ \E p \in P, id \in Ids, up \in Ups : GetResults(p, id, up)
    \/ \E p \in P, id \in Ids, u \in Users, up \in Ups : EndPoll_Get(p, id, u, up)
    \/ \E p \in P, up \in Ups : EndPoll_Update(p, up)
    \/ \E p \in P, id \in Ids, u \in Users, up \in Ups : DeletePoll_Get(p, id, u, up)
    \/ \E p \in P, up \in Ups : DeletePoll_Delete(p, up)

\* concurrent callers working on the polls createPoll creates for user_a,
\* the back end answering every request
Next ==
    \/ Calls(Procs, FreshIds, {"user_a"}, {TRUE})
    \/ \E p \in Procs, id \in FreshIds : GetPoll(p, id, TRUE)

Spec == Init /\ [][Next]_vars

\* concurrent callers that vote on and format the results of the polls
\* createPoll creates for user_a, the back end answering every request
NextFmt ==
    \/ \E p \in Procs, title \in Titles, options \in OptionSeqs, now \in Times :
          CreatePoll(p, title, options, "user_a", now, TRUE)
    \/ \E p \in Procs, id \in FreshIds, o \in VoteOptions, u \in Users :
          HandleVote_Get(p, id, o, u, TRUE)
    \/ \E p \in Procs : HandleVote_Update(p, TRUE)
    \/ \E p \in Procs, id \in FreshIds : FormatPollResults_Get(p, id, TRUE)
    \/ \E p \in Procs : FormatPollResults_GetResults(p, TRUE)

SpecFmt == Init /\ [][NextFmt]_vars

\* one caller at a time, on the seeded poll and on the polls createPoll
\* creates for bob, the back end failing some requests
NextSeq ==
    \/ Calls({"c1"}, PollIds, {"bob"}, BOOLEAN)
    \/ Reads({"c1"}, PollIds, BOOLEAN)

SpecSeq == Init /\ [][NextSeq]_vars

\* --------------------------------- Service methods as whole calls
\* what a Service method returns, and the store it leaves, when the call
\* runs from its first line to its return with no other call in between
\* (the way a command handler waits for it); up is the back end's answer to
\* the storage requests of the call
SvcCreatePoll(s, id, title, options, creatorID, now, up) ==
    IF title = "" THEN [err |-> "empty poll title", store |-> s, poll |-> {}]
    ELSE IF Len(options) < 2
      THEN [err |-> "poll must have at least two options", store |-> s, poll |-> {}]
    ELSE LET pl == MkPoll(id, title, options, FALSE, creatorID, now, TRUE,
                          EmptyMap, FALSE)
             r == StorageCreatePoll(s, pl, now, up)
         IN IF r.ok THEN [err |-> "nil", store |-> r.store, poll |-> {r.poll}]
            ELSE [err |-> "failed to create poll", store |-> s, poll |-> {}]

SvcGetPoll(s, pollID, up) ==
    LET g == StorageGetPoll(s, pollID, up)
    IN IF g.kind # "ok" THEN [err |-> GetError(g.kind), poll |-> {}]
       ELSE [err |-> "nil", poll |-> g.poll]

SvcHandleVote(s, pollID, option, userID, up) ==
    LET g == StorageGetPoll(s, pollID, up)
    IN IF g.kind # "ok" THEN [err |-> GetError(g.kind), store |-> s]
       ELSE LET pl == The(g.poll) IN
            IF ~pl.IsActive THEN [err |-> "ErrPollInactive", store |-> s]
            ELSE IF ~optionValid(pl, option) THEN [err |-> "ErrInvalidOption", store |-> s]
            ELSE LET r == StorageUpdatePoll(s, SetVote(pl, userID, option), up)
                 IN [err |-> IF r.ok THEN "nil" ELSE "failed to update poll",
                     store |-> r.store]

SvcGetResults(s, pollID, up) ==
    LET g == StorageGetPoll(s, pollID, up)
    IN IF g.kind # "ok" THEN [err |-> GetError(g.kind), results |-> {}]
       ELSE [err |-> "nil", results |-> {Tally(The(g.poll))}]

SvcEndPoll(s, pollID, userID, up) ==
    LET g == StorageGetPoll(s, pollID, up)
    IN IF g.kind # "ok" THEN [err |-> GetError(g.kind), store |-> s]
       ELSE LET pl == The(g.poll) IN
            IF NotCreator(pl, userID) THEN [err |-> "ErrNotAuthorized", store |-> s]
            ELSE IF ~pl.IsActive THEN [err |-> "nil", store |-> s]
            ELSE LET r == StorageUpdatePoll(s, [pl EXCEPT !.IsActive = FALSE], up)
                 IN [err |-> IF r.ok THEN "nil" ELSE "failed to update poll",
                     store |-> r.store]

SvcDeletePoll(s, pollID, userID, up) ==
    LET g == StorageGetPoll(s, pollID, up)
    IN IF g.kind # "ok" THEN [err |-> GetError(g.kind), store |-> s]
       ELSE LET pl == The(g.poll) IN
            IF NotCreator(pl, userID) THEN [err |-> "ErrNotAuthorized", store |-> s]
            ELSE LET r == StorageDeletePoll(s, pollID, up)
                 IN [err |-> IF r.ok THEN "nil" ELSE "failed to delete poll",
                     store |-> r.store]

SvcListPolls(s, up) ==
    LET l == StorageListPolls(s, up)
    IN [err |-> CASE l.kind = "ok" -> "nil"
                  [] l.kind = "panic" -> "panic"
                  [] OTHER -> "failed to list polls",
        polls |-> l.polls]

\* Service.FormatPollResults: GetPoll, then GetResults; the text is kept as
\* its parts (heading, title, closed mark, results heading)
SvcFormatPollResults(s, pollID, up) ==
    LET g == StorageGetPoll(s, pollID, up)
        r == SvcGetResults(s, pollID, up)
    IN IF g.kind # "ok" THEN [err |-> GetError(g.kind), text |-> <<>>]
       ELSE IF r.err # "nil" THEN [err |-> r.err, text |-> <<>>]
       ELSE [err |-> "nil",
             text |-> <<"### Poll: ", The(g.poll).Title,
                        IF The(g.poll).IsActive THEN "" ELSE "**Status: Closed**",
                        "#### Results:">>]

\* ------------------------------------------------------ Command Router
\* command names RegisterCommandHandlers registers, with their handlers
handlers ==
    [n \in {"poll-create", "poll-vote", "poll-results", "poll-end",
            "poll-delete", "poll-list"} |->
        CASE n = "poll-create" -> "handlePollCreate"
          [] n = "poll-vote" -> "handlePollVote"
          [] n = "poll-results" -> "handlePollResults"
          [] n = "poll-end" -> "handlePollEnd"
          [] n = "poll-delete" -> "handlePollDelete"
          [] n = "poll-list" -> "handlePollList"]

\* a command string is kept as its leading '/' characters, one element
\* each, followed by the rest; the commands a caller may send, each with
\* argument lists below, at and above what its handler asks for
Requests ==
    LET Req(c, a) == [command |-> c, args |-> a] IN
    {Req(<<"/", "poll-create">>, a) :
        a \in {<<>>, <<"Lunch?", "Green">>, <<"Lunch?", "Green", "Red">>}}
      \cup {Req(<<"poll-vote">>, a) :
              a \in {<<>>} \cup {<<id>> : id \in FreshIds}
                    \cup {<<id, o>> : id \in FreshIds, o \in {"Red", "Mauve"}}}
      \cup {Req(c, a) :
              c \in {<<"/", "poll-results">>, <<"poll-end">>,
                     <<"/", "poll-delete">>, <<"poll-list">>},
              a \in {<<>>} \cup {<<id>> : id \in FreshIds}}
      \cup {Req(<<"/", "/", "poll-vote">>, <<id, "Red">>) : id \in FreshIds}
      \cup {Req(<<"poll-open">>, <<>>)}

\* a TrimPrefix that strips every leading '/'
TrimPrefix_All(command) ==
    IF Len(command) > 0 /\ command[1] = "/"
      THEN SelectSeq(command, LAMBDA c : c # "/") ELSE command

\* strings.TrimPrefix(command, "/")
TrimPrefix(command) ==
    IF Len(command) > 0 /\ command[1] = "/" THEN Tail(command) ELSE command

\* the look-up c.handlers[commandName]
Registered(commandName) == Len(commandName) = 1 /\ commandName[1] \in DOMAIN handlers
HandlerOf(commandName) == handlers[commandName[1]]

\* what a handler returns (text, err), the store and the id counter it
\* leaves, the Service methods it called and what the last of them returned
Handled(text, e, s, n, svc, svcErr) ==
    [text |-> text, err |-> e, store |-> s, created |-> n, svc |-> svc,
     svcErr |-> svcErr]

\* handlePollCreate that asks for two arguments only
handlePollCreate_Min2(s, n, args, userID, now, up) ==
    IF Len(args) < 2 THEN Handled(<<"Usage: /poll-create">>, <<>>, s, n, <<>>, "nil")
    ELSE IF Len(Tail(args)) < 2
      THEN Handled(<<"Error: Please provide a title and at least 2 options.">>,
                   <<>>, s, n, <<>>, "nil")
    ELSE LET id == IF n < Len(IdNames) THEN IdNames[n + 1] ELSE ""
             r == SvcCreatePoll(s, id, args[1], Tail(args), userID, now, up)
         IN IF r.err # "nil"
              THEN Handled(<<>>, <<"failed to create poll: ", r.err>>, s, n,
                           <<"CreatePoll">>, r.err)
              ELSE Handled(<<"### Poll Created: ", args[1], id>>, <<>>, r.store,
                           n + 1, <<"CreatePoll">>, "nil")

handlePollCreate(s, n, args, userID, now, up) ==
    IF Len(args) < 3 THEN Handled(<<"Usage: /poll-create">>, <<>>, s, n, <<>>, "nil")
    ELSE IF Len(Tail(args)) < 2
      THEN Handled(<<"Error: Please provide a title and at least 2 options.">>,
                   <<>>, s, n, <<>>, "nil")
    ELSE LET id == IF n < Len(IdNames) THEN IdNames[n + 1] ELSE ""
             r == SvcCreatePoll(s, id, args[1], Tail(args), userID, now, up)
         IN IF r.err # "nil"
              THEN Handled(<<>>, <<"failed to create poll: ", r.err>>, s, n,
                           <<"CreatePoll">>, r.err)
              ELSE Handled(<<"### Poll Created: ", args[1], id>>, <<>>, r.store,
                           n + 1, <<"CreatePoll">>, "nil")

handlePollVote(s, n, args, userID, up) ==
    IF Len(args) < 2 THEN Handled(<<"Usage: /poll-vote">>, <<>>, s, n, <<>>, "nil")
    ELSE LET r == SvcHandleVote(s, args[1], args[2], userID, up)
         IN IF r.err # "nil"
              THEN Handled(<<>>, <<"failed to vote: ", r.err>>, r.store, n,
                           <<"HandleVote">>, r.err)
              ELSE Handled(<<"Your vote has been recorded", args[2], args[1]>>,
                           <<>>, r.store, n, <<"HandleVote">>, "nil")

handlePollResults(s, n, args, userID, up) ==
    IF Len(args) < 1 THEN Handled(<<"Usage: /poll-results">>, <<>>, s, n, <<>>, "nil")
    ELSE LET r == SvcFormatPollResults(s, args[1], up)
         IN IF r.err # "nil"
              THEN Handled(<<>>, <<"failed to get poll results: ", r.err>>, s, n,
                           <<"FormatPollResults">>, r.err)
              ELSE Handled(r.text, <<>>, s, n, <<"FormatPollResults">>, "nil")

handlePollEnd(s, n, args, userID, up) ==
    IF Len(args) < 1 THEN Handled(<<"Usage: /poll-end">>, <<>>, s, n, <<>>, "nil")
    ELSE LET e == SvcEndPoll(s, args[1], userID, up)
             r == SvcFormatPollResults(e.store, args[1], up)
         IN IF e.err # "nil"
              THEN Handled(<<>>, <<"failed to end poll: ", e.err>>, e.store, n,
                           <<"EndPoll">>, e.err)
            ELSE IF r.err # "nil"
              THEN Handled(<<"Poll has been ended, but results could not be displayed.">>,
                           <<>>, e.store, n, <<"EndPoll", "FormatPollResults">>, r.err)
            ELSE Handled(<<"Poll has been ended.">> \o r.text, <<>>, e.store, n,
                         <<"EndPoll", "FormatPollResults">>, "nil")

handlePollDelete(s, n, args, userID, up) ==
    IF Len(args) < 1 THEN Handled(<<"Usage: /poll-delete">>, <<>>, s, n, <<>>, "nil")
    ELSE LET g == SvcGetPoll(s, args[1], up)
             d == SvcDeletePoll(s, args[1], userID, up)
         IN IF g.err # "nil"
              THEN Handled(<<>>, <<"failed to get poll: ", g.err>>, s, n, <<"GetPoll">>, g.err)
            ELSE IF d.err # "nil"
              THEN Handled(<<>>, <<"failed to delete poll: ", d.err>>, d.store, n,
                           <<"GetPoll", "DeletePoll">>, d.err)
            ELSE Handled(<<"Poll has been deleted", args[1], The(g.poll).Title>>,
                         <<>>, d.store, n, <<"GetPoll", "DeletePoll">>, "nil")

handlePollList(s, n, args, userID, up) ==
    LET l == SvcListPolls(s, up)
    IN IF l.err # "nil"
         THEN Handled(<<>>, <<"failed to list polls: ", l.err>>, s, n, <<"ListPolls">>,
                      l.err)
       ELSE IF l.polls = {} THEN Handled(<<"No polls found.">>, <<>>, s, n, <<"ListPolls">>, "nil")
       ELSE Handled(<<"### Available Polls">>, <<>>, s, n, <<"ListPolls">>, "nil")

\* the call handler(args, userID, channelID) of the handler named h
RunHandler(h, s, n, args, userID, now, up) ==
    CASE h = "handlePollCreate" -> handlePollCreate(s, n, args, userID, now, up)
      [] h = "handlePollVote" -> handlePollVote(s, n, args, userID, up)
      [] h = "handlePollResults" -> handlePollResults(s, n, args, userID, up)
      [] h = "handlePollEnd" -> handlePollEnd(s, n, args, userID, up)
      [] h = "handlePollDelete" -> handlePollDelete(s, n, args, userID, up)
      [] h = "handlePollList" -> handlePollList(s, n, args, userID, up)

\* uuid.New() has an id left for the poll this command would create
IdLeft(command, args) ==
    (/\ Registered(command)
     /\ HandlerOf(command) = "handlePollCreate"
     /\ Len(args) >= 3)
    => created < Len(IdNames)

\* the caller's record of a command and of the handler run for it
Sent(p, command, args, h, svc, svcErr) ==
    cmd' = [cmd EXCEPT ![p] = [command |-> command, nargs |-> Len(args),
                               handler |-> h, svc |-> svc, svcErr |-> svcErr]]

\* a step of the Command Router leaves the callers of the Service alone
RouterStep(p) ==
    /\ pc[p] = "idle"
    /\ actor' = p
    /\ UNCHANGED <<pc, call, poll, err, ret, results, seen, ctx, parseVars,
                   mainVars, scan>>

\* Client.HandleCommand
Client_HandleCommand(p, command, args, userID, now, up) ==
    LET commandName == TrimPrefix(command) IN
    /\ RouterStep(p)
    /\ IdLeft(commandName, args)
    /\ IF ~Registered(commandName) THEN
          /\ Sent(p, command, args, "none", <<>>, "nil")
          /\ reply' = [reply EXCEPT ![p] =
                          [text |-> <<>>,
                           err |-> <<"unknown command: ">> \o commandName,
                           status |-> "returned"]]
          /\ UNCHANGED <<store, created>>
       ELSE LET h == HandlerOf(commandName) IN
            \E r \in {RunHandler(h, store, created, args, userID, now, up)} :
               /\ Sent(p, command, args, h, r.svc, r.svcErr)
               /\ reply' = [reply EXCEPT ![p] =
                               [text |-> r.text, err |-> r.err, status |-> "returned"]]
               /\ store' = r.store
               /\ created' = r.created

\* HTTPHandler.handleCommand, from the decoded request on: a failed command
\* is answered with http.Error (status 500, the error's text as body), any
\* other with status 200 and the handler's text
HTTPHandler_handleCommand(p, command, args, userID, now, up) ==
    LET commandName == TrimPrefix(TrimPrefix(command)) IN
    /\ RouterStep(p)
    /\ IdLeft(commandName, args)
    /\ IF ~Registered(commandName) THEN
          /\ Sent(p, command, args, "none", <<>>, "nil")
          /\ reply' = [reply EXCEPT ![p] =
                          [text |-> <<"unknown command: ">> \o commandName,
                           err |-> <<>>, status |-> "500"]]
          /\ UNCHANGED <<store, created>>
       ELSE LET h == HandlerOf(commandName) IN
            \E r \in {RunHandler(h, store, created, args, userID, now, up)} :
               /\ Sent(p, command, args, h, r.svc, r.svcErr)
               /\ reply' = [reply EXCEPT ![p] =
                               IF r.err # <<>>
                                 THEN [text |-> r.err, err |-> <<>>, status |-> "500"]
                                 ELSE [text |-> r.text, err |-> <<>>, status |-> "200"]]
               /\ store' = r.store
               /\ created' = r.created

\* Client.handleSlashCommand on an event whose command has the fields
\* command, args...: an unknown command is dropped, an error is posted as
\* "Error: <message>", a non-empty text is posted as it is
Client_handleSlashCommand(p, command, args, userID, now, up) ==
    LET commandName == TrimPrefix(command) IN
    /\ RouterStep(p)
    /\ Len(command) > 0
    /\ IdLeft(commandName, args)
    /\ IF ~Registered(commandName) THEN
          /\ Sent(p, command, args, "none", <<>>, "nil")
          /\ reply' = [reply EXCEPT ![p] = NoReply]
          /\ UNCHANGED <<store, created>>
       ELSE LET h == HandlerOf(commandName) IN
            \E r \in {RunHandler(h, store, created, args, userID, now, up)} :
               /\ Sent(p, command, args, h, r.svc, r.svcErr)
               /\ reply' = [reply EXCEPT ![p] =
                               IF r.err # <<>>
                                 THEN [text |-> <<"Error: ">> \o r.err, err |-> <<>>,
                                       status |-> "posted"]
                               ELSE IF r.text # <<>>
                                 THEN [text |-> r.text, err |-> <<>>, status |-> "posted"]
                               ELSE NoReply]
               /\ store' = r.store
               /\ created' = r.created

\* one caller sending commands on the three ways into the Command Router,
\* the back end failing some requests
NextCmd ==
    \/ \E r \in Requests, u \in Users, now \in Times, up \in BOOLEAN :
          Client_HandleCommand("c1", r.command, r.args, u, now, up)
    \/ \E r \in Requests, u \in Users, now \in Times, up \in BOOLEAN :
          HTTPHandler_handleCommand("c1", r.command, r.args, u, now, up)
    \/ \E r \in Requests, u \in Users, now \in Times, up \in BOOLEAN :
          Client_handleSlashCommand("c1", r.command, r.args, u, now, up)

SpecCmd == Init /\ [][NextCmd]_vars

\* ------------------------------------------------- argument parsing
\* the bytes of a text: a letter, a space, a double quote
Chars == {"a", " ", "\""}
Whitespace == {" "}

\* the texts of at most n characters
RECURSIVE TextsUpTo(_)
TextsUpTo(n) ==
    IF n = 0 THEN {<<>>}
    ELSE LET S == TextsUpTo(n - 1) IN
         S \cup {Append(t, c) : t \in {u \in S : Len(u) = n - 1}, c \in Chars}

Texts == TextsUpTo(MaxText)

\* the for loop of parseCommandArgs from byte i on, and the flush after it
RECURSIVE parseLoop(_, _, _, _, _)
parseLoop(t, i, as, currentArg, inQuotes) ==
    IF i > Len(t)
      THEN IF Len(currentArg) > 0 THEN Append(as, currentArg) ELSE as
    ELSE LET char == t[i] IN
      IF char = "\""
        THEN IF inQuotes /\ Len(currentArg) > 0
               THEN parseLoop(t, i + 1, Append(as, currentArg), <<>>, FALSE)
               ELSE parseLoop(t, i + 1, as, currentArg, ~inQuotes)
      ELSE IF char \in Whitespace
        THEN IF inQuotes
               THEN parseLoop(t, i + 1, as, Append(currentArg, char), inQuotes)
             ELSE IF Len(currentArg) > 0
               THEN parseLoop(t, i + 1, Append(as, currentArg), <<>>, inQuotes)
             ELSE parseLoop(t, i + 1, as, currentArg, inQuotes)
      ELSE parseLoop(t, i + 1, as, Append(currentArg, char), inQuotes)

\* parseCommandArgs(text); nil is <<>>
parseCommandArgs(t) ==
    IF t = <<>> THEN <<>> ELSE parseLoop(t, 1, <<>>, <<>>, FALSE)

\* HTTPHandler.handleCommand parses the text of a form request
ParseText(t) ==
    /\ parseIn' = t
    /\ parseOut' = parseCommandArgs(t)
    /\ actor' = "none"
    /\ UNCHANGED <<store, created, pc, call, poll, err, ret, results, seen, ctx,
                   routerVars, mainVars, scan>>

NextParse == \E t \in Texts : ParseText(t)

SpecParse == Init /\ [][NextParse]_vars

\* ------------------------------------------------------------ the process
\* a step of main leaves the callers, the store and the router alone
MainStep ==
    /\ actor' = "none"
    /\ UNCHANGED <<store, created, pc, call, poll, err, ret, results, seen, ctx,
                   routerVars, parseVars, scan>>

\* a loop body that sleeps after the last attempt too
Connect_Four(ok) ==
    /\ boot.at = "connect"
    /\ boot.attempts <= MaxAttempts + 1
    /\ boot' = IF ok
                THEN [boot EXCEPT !.at = "loopdone", !.err = "nil",
                                  !.tried = @ + 1]
              ELSE IF boot.attempts < MaxAttempts + 1
                THEN [boot EXCEPT !.at = "sleep", !.err = "connect failed",
                                  !.tried = @ + 1]
              ELSE [boot EXCEPT !.at = "loopdone", !.err = "connect failed",
                                !.tried = @ + 1, !.attempts = @ + 1]
    /\ MainStep
    /\ UNCHANGED notify

\* main's loop body: one db.NewTarantoolStorage call, break on success,
\* on failure go to sleep unless this was the last attempt
Connect(ok) ==
    /\ boot.at = "connect"
    /\ boot.attempts <= MaxAttempts
    /\ boot' = IF ok
                THEN [boot EXCEPT !.at = "loopdone", !.err = "nil",
                                  !.tried = @ + 1]
              ELSE IF boot.attempts < MaxAttempts
                THEN [boot EXCEPT !.at = "sleep", !.err = "connect failed",
                                  !.tried = @ + 1]
              ELSE [boot EXCEPT !.at = "loopdone", !.err = "connect failed",
                                !.tried = @ + 1, !.attempts = @ + 1]
    /\ MainStep
    /\ UNCHANGED notify

\* time.Sleep(2 * time.Second), then attempts++
Sleep ==
    /\ boot.at = "sleep"
    /\ boot' = [boot EXCEPT !.at = "connect", !.attempts = @ + 1,
                            !.slept = Append(@, RetryWait)]
    /\ MainStep
    /\ UNCHANGED notify

\* after the loop: os.Exit(1) when the last attempt failed, otherwise
\* service.NewService(tarantoolStore, nil)
AfterLoop ==
    /\ boot.at = "loopdone"
    /\ IF boot.err # "nil"
         THEN /\ boot' = [boot EXCEPT !.at = "exited", !.exit = "1"]
              /\ UNCHANGED notify
         ELSE /\ boot' = [boot EXCEPT !.at = "newclient", !.service = TRUE]
              /\ notify' = NoNotify
    /\ MainStep

\* mattermost.NewClient: os.Exit(1) when it fails
NewClient(ok) ==
    /\ boot.at = "newclient"
    /\ boot' = IF ok THEN [boot EXCEPT !.at = "setnotifier"]
                    ELSE [boot EXCEPT !.at = "exited", !.exit = "1"]
    /\ MainStep
    /\ UNCHANGED notify

\* Service.SetNotifier(mmClient)
SetNotifier ==
    /\ boot.at = "setnotifier"
    /\ notify' = [notify EXCEPT !.notifier = "mmClient"]
    /\ boot' = [boot EXCEPT !.at = "register"]
    /\ MainStep

\* mmClient.RegisterCommands: os.Exit(1) when it fails, else StartListening
RegisterCommands(ok) ==
    /\ boot.at = "register"
    /\ boot' = IF ok THEN [boot EXCEPT !.at = "serving"]
                    ELSE [boot EXCEPT !.at = "exited", !.exit = "1"]
    /\ MainStep
    /\ UNCHANGED notify

\* <-sig: main returns
Signal ==
    /\ boot.at = "serving"
    /\ boot' = [boot EXCEPT !.at = "exited", !.exit = "0"]
    /\ MainStep
    /\ UNCHANGED notify

\* Service.NotifyChannel, the notifier's PostMessage succeeding or not
NotifyChannel(postOK) ==
    /\ boot.service
    /\ boot.at # "exited"
    /\ notify.posted < MaxPosts
    /\ notify' = IF notify.notifier = "nil"
                  THEN [notify EXCEPT !.ret = "nil"]
                ELSE IF postOK
                  THEN [notify EXCEPT !.ret = "nil", !.posted = @ + 1]
                ELSE [notify EXCEPT !.ret = "post failed"]
    /\ MainStep
    /\ UNCHANGED boot

\* the steps of the connection loop and of the test that follows it
Startup ==
    \/ \E ok \in BOOLEAN : Connect(ok)
    \/ Sleep
    \/ AfterLoop

\* the process from its start on; once it serves, a caller votes on the
\* seeded poll, the back end answering every request
NextMain ==
    \/ Startup
    \/ \E ok \in BOOLEAN : NewClient(ok)
    \/ SetNotifier
    \/ \E ok \in BOOLEAN : RegisterCommands(ok)
    \/ Signal
    \/ \E postOK \in BOOLEAN : NotifyChannel(postOK)
    \/ /\ boot.at = "serving"
       /\ \E o \in VoteOptions, u \in Users :
             HandleVote_Get("c1", "poll1", o, u, TRUE)
    \/ /\ boot.at = "serving"
       /\ HandleVote_Update("c1", TRUE)

\* main runs on: a connection attempt returns, a sleep ends
SpecMain == Init /\ [][NextMain]_vars /\ WF_vars(Startup)

\* --------------------------------------------------- a space of any size
\* a step on the sized space leaves everything else alone
ScanStep ==
    /\ actor' = "none"
    /\ UNCHANGED <<store, created, pc, call, poll, err, ret, results, seen, ctx,
                   routerVars, parseVars, mainVars>>

\* TarantoolStorage.CreatePoll of one more well-formed record
ScanInsert ==
    /\ scan.rows < MaxRows
    /\ scan' = [rows |-> scan.rows + 1, listed |-> FALSE, polls |-> 0]
    /\ ScanStep

\* TarantoolStorage.ListPolls: connPool.Select(..., 0, 1000, IterAll, ...)
\* answers with the first 1000 tuples at most, convertResponseToPolls
\* decodes each tuple of the answer
ScanListPolls ==
    /\ scan' = [scan EXCEPT !.listed = TRUE,
                            !.polls = IF scan.rows <= SelectLimit
                                        THEN scan.rows ELSE SelectLimit]
    /\ ScanStep

NextScan == ScanInsert \/ ScanListPolls

SpecScan == Init /\ [][NextScan]_vars

\* ------------------------------------- the adapter, called on its own
\* polls a direct caller of the adapter hands to CreatePoll and UpdatePoll
StorePolls ==
    {MkPoll("poll1", "Lunch?", <<"Green", "Red">>, FALSE, u, t, a, v, FALSE) :
        u \in Users, t \in 0..MaxTime, a \in BOOLEAN,
        v \in {EmptyMap, [w \in {"bob"} |-> "Red"]}}

\* TarantoolStorage.CreatePoll, called with poll pl at time now
TarantoolStorage_CreatePoll(p, pl, now, up) ==
    LET c == [NoCall EXCEPT !.op = "db.create", !.pollID = pl.ID,
                            !.title = pl.Title, !.options = pl.Options,
                            !.userID = pl.CreatedBy]
        r == StorageCreatePoll(store, pl, now, up)
    IN
    /\ pc[p] = "idle"
    /\ store' = r.store
    /\ ret' = [ret EXCEPT ![p] = {r.poll}]
    /\ results' = [results EXCEPT ![p] = {}]
    /\ Finish(p, c, IF r.ok THEN "nil" ELSE "failed to insert poll")
    /\ UNCHANGED <<created, seen>>

\* TarantoolStorage.GetPoll
TarantoolStorage_GetPoll(p, id, up) ==
    LET c == [NoCall EXCEPT !.op = "db.get", !.pollID = id]
        g == StorageGetPoll(store, id, up)
    IN
    /\ pc[p] = "idle"
    /\ ret' = [ret EXCEPT ![p] = g.poll]
    /\ results' = [results EXCEPT ![p] = {}]
    /\ Finish(p, c, CASE g.kind = "ok" -> "nil"
                      [] g.kind = "notfound" -> "ErrNotFound"
                      [] g.kind = "invalid" -> "invalid Tarantool response"
                      [] g.kind = "panic" -> "panic"
                      [] OTHER -> "tarantool select error")
    /\ UNCHANGED <<store, created, seen>>

\* TarantoolStorage.UpdatePoll
TarantoolStorage_UpdatePoll(p, pl, up) ==
    LET c == [NoCall EXCEPT !.op = "db.update", !.pollID = pl.ID,
                            !.title = pl.Title, !.options = pl.Options,
                            !.userID = pl.CreatedBy]
        r == StorageUpdatePoll(store, pl, up)
    IN
    /\ pc[p] = "idle"
    /\ store' = r.store
    /\ ret' = [ret EXCEPT ![p] = {pl}]
    /\ results' = [results EXCEPT ![p] = {}]
    /\ Finish(p, c, IF r.ok THEN "nil" ELSE "failed to update poll")
    /\ UNCHANGED <<created, seen>>

\* TarantoolStorage.DeletePoll
TarantoolStorage_DeletePoll(p, id, up) ==
    LET c == [NoCall EXCEPT !.op = "db.delete", !.pollID = id]
        r == StorageDeletePoll(store, id, up)
    IN
    /\ pc[p] = "idle"
    /\ store' = r.store
    /\ ret' = [ret EXCEPT ![p] = {}]
    /\ results' = [results EXCEPT ![p] = {}]
    /\ Finish(p, c, IF r.ok THEN "nil" ELSE "failed to delete poll")
    /\ UNCHANGED <<created, seen>>

\* one caller using the adapter directly: it writes records of poll1 and
\* reads and deletes any id, the back end answering every request
NextStore ==
    \/ \E pl \in StorePolls, now \in Times :
          TarantoolStorage_CreatePoll("c1", pl, now, TRUE)
    \/ \E id \in PollIds : TarantoolStorage_GetPoll("c1", id, TRUE)
    \/ \E pl \in StorePolls : TarantoolStorage_UpdatePoll("c1", pl, TRUE)
    \/ \E id \in PollIds : TarantoolStorage_DeletePoll("c1", id, TRUE)

SpecStore == Init /\ [][NextStore]_vars

\* ------------------------------------------------- contexts of callers
\* the context caller p passes is cancelled; no method of the Service or of
\* the adapter reads ctx.Done() or ctx.Err(), so nothing else changes
CancelCtx(p) ==
    /\ ~ctx[p]
    /\ ctx' = [ctx EXCEPT ![p] = TRUE]
    /\ actor' = "none"
    /\ UNCHANGED <<store, created, pc, call, poll, err, ret, results, seen,
                   routerVars, parseVars, mainVars, scan>>

\* caller p, between two calls, takes a fresh context
RenewCtx(p) ==
    /\ ctx[p]
    /\ pc[p] = "idle"
    /\ ctx' = [ctx EXCEPT ![p] = FALSE]
    /\ actor' = "none"
    /\ UNCHANGED <<store, created, pc, call, poll, err, ret, results, seen,
                   routerVars, parseVars, mainVars, scan>>

\* one caller whose context may be cancelled at any moment, on the polls
\* createPoll creates for user_a, the back end answering every request
NextCtx ==
    \/ Calls({"c1"}, FreshIds, {"user_a"}, {TRUE})
    \/ CancelCtx("c1")
    \/ RenewCtx("c1")

SpecCtx == Init /\ [][NextCtx]_vars

\* ------------------------------------------------ reading the store
Present(s, id) == s[id] # NoTuple
IsActiveOf(s, id) == s[id][6].v
CreatedByOf(s, id) == s[id][4].v
RawVotesOf(s, id) == s[id][7].v
\* the votes of a stored poll as map user -> option string
VotesOf(s, id) == [u \in {k.v : k \in DOMAIN RawVotesOf(s, id)} |-> RawVotesOf(s, id)[Str(u)].v]
OptionsOf(s, id) == {s[id][3].v[i].v : i \in DOMAIN s[id][3].v}

\* caller p makes a call in this step
Starts(p) == actor' = p /\ pc[p] = "idle"
\* caller p does the storage write it was about to do
Writes(p, label) == actor' = p /\ pc[p] = label

RECURSIVE SumOver(_, _)
SumOver(f, S) ==
    IF S = {} THEN 0
    ELSE LET x == CHOOSE y \in S : TRUE IN f[x] + SumOver(f, S \ {x})

\* ------------------------------------------------------------- claims
\* C1: the stored isActive flag is monotonic: a step from a state in which
\* the record of an id has isActive = false never leaves a record of that id
\* with isActive = true.
CE_C1_IsActiveMonotonic ==
    [][\A id \in PollIds :
          (Present(store, id) /\ ~IsActiveOf(store, id) /\ Present(store', id))
             => ~IsActiveOf(store', id)]_vars

\* C2: once the stored record has isActive = false, no step changes its
\* votes map.
CE_C2_InactiveVotesFrozen ==
    [][\A id \in PollIds :
          (Present(store, id) /\ ~IsActiveOf(store, id) /\ Present(store', id))
             => RawVotesOf(store', id) = RawVotesOf(store, id)]_vars

\* C3: lost update.  When caller b's vote replaces the record, and the whole
\* successful vote call of another caller a, for another user, fell between
\* b's GetPoll and this replace, the stored votes map becomes b's local map:
\* it has b's entry, and no entry of a's user unless b had read one.
C3_LostUpdate ==
    [][\A b \in Procs : \A a \in Procs \ {b} :
          ( /\ Writes(b, "HandleVote_Update") /\ err'[b] = "nil"
            /\ pc[a] = "idle" /\ call[a].op = "vote" /\ err[a] = "nil"
            /\ call[a].pollID = call[b].pollID
            /\ call[a].userID # call[b].userID
            /\ b \in seen[a] )
          => LET id == call[b].pollID
                 local == The(poll[b]).Votes
             IN /\ Present(store', id)
                /\ VotesOf(store', id) = local
                /\ VotesOf(store', id)[call[b].userID] = call[b].option
                /\ call[a].userID \notin DOMAIN local
                      => call[a].userID \notin DOMAIN VotesOf(store', id)]_vars

\* both vote calls returned success, a's call fell between b's GetPoll and
\* b's replace, and the stored map has b's vote and none of a's user
W_C3_LostUpdate ==
    \E a \in Procs, b \in Procs :
        /\ a # b /\ pc[a] = "idle" /\ pc[b] = "idle"
        /\ call[a].op = "vote" /\ call[b].op = "vote"
        /\ err[a] = "nil" /\ err[b] = "nil"
        /\ call[a].pollID = call[b].pollID
        /\ call[a].userID # call[b].userID
        /\ b \in seen[a]
        /\ Present(store, call[b].pollID)
        /\ call[b].userID \in DOMAIN VotesOf(store, call[b].pollID)
        /\ VotesOf(store, call[b].pollID)[call[b].userID] = call[b].option
        /\ call[a].userID \notin DOMAIN VotesOf(store, call[b].pollID)

\* C4: only the creator ends or deletes a poll.  An endPoll or deletePoll
\* call by a user other than the stored createdBy returns ErrNotAuthorized
\* and writes nothing; every step that turns isActive to false is the
\* UpdatePoll of an endPoll call by createdBy, and every step that removes a
\* record is the storage delete of a deletePoll call by createdBy.
C4_OnlyCreator ==
    [][/\ \A p \in Procs :
            ( /\ Starts(p) /\ call'[p].op \in {"end", "delete"}
              /\ Present(store, call'[p].pollID)
              /\ CreatedByOf(store, call'[p].pollID) # call'[p].userID
              /\ err'[p] # "failed to get poll" )
            => /\ err'[p] = "ErrNotAuthorized"
               /\ pc'[p] = "idle"
               /\ store' = store
       /\ \A id \in PollIds :
            (Present(store, id) /\ IsActiveOf(store, id)
               /\ Present(store', id) /\ ~IsActiveOf(store', id))
            => \E p \in Procs : /\ Writes(p, "EndPoll_Update")
                                /\ call[p].pollID = id
                                /\ call[p].userID = CreatedByOf(store, id)
       /\ \A id \in PollIds :
            (Present(store, id) /\ ~Present(store', id))
            => \E p \in Procs : /\ Writes(p, "DeletePoll_Delete")
                                /\ call[p].pollID = id
                                /\ call[p].userID = CreatedByOf(store, id)]_vars

\* a non-creator's endPoll or deletePoll has returned ErrNotAuthorized and
\* the poll is still stored and active
W_C4_OnlyCreator ==
    \E p \in Procs :
        /\ pc[p] = "idle" /\ call[p].op \in {"end", "delete"}
        /\ err[p] = "ErrNotAuthorized"
        /\ Present(store, call[p].pollID)
        /\ CreatedByOf(store, call[p].pollID) # call[p].userID
        /\ IsActiveOf(store, call[p].pollID)

\* C5: every value in the stored votes map of a poll made by createPoll is
\* one of that poll's options.
C5_VotesAreOptions ==
    \A id \in FreshIds :
        Present(store, id) =>
            \A k \in DOMAIN RawVotesOf(store, id) :
                /\ RawVotesOf(store, id)[k].t = "string"
                /\ RawVotesOf(store, id)[k].v \in OptionsOf(store, id)

\* a created poll holds the votes of two users
W_C5_VotesAreOptions ==
    \E id \in FreshIds :
        /\ Present(store, id)
        /\ Cardinality(DOMAIN RawVotesOf(store, id)) >= 2

\* C6: when a user who has a vote in an active poll votes again, the stored
\* map afterwards has the same users as before, the user's entry is the new
\* option, and the entries of the other users are unchanged.
C6_RevoteOverwrites ==
    [][\A p \in Procs :
          (Writes(p, "HandleVote_Update") /\ err'[p] = "nil" /\ call[p].voted
             /\ Present(store, call[p].pollID))
          => LET id == call[p].pollID
                 u == call[p].userID
                 old == VotesOf(store, id)
                 new == VotesOf(store', id)
             IN /\ Present(store', id)
                /\ DOMAIN new = DOMAIN old
                /\ u \in DOMAIN new
                /\ new[u] = call[p].option
                /\ \A w \in DOMAIN old \ {u} : new[w] = old[w]]_vars

\* a second vote of a user, for another option than the first, has been
\* stored, next to the vote of another user
W_C6_RevoteOverwrites ==
    \E p \in Procs :
        /\ pc[p] = "idle" /\ call[p].op = "vote" /\ err[p] = "nil"
        /\ call[p].voted /\ call[p].existingOption # call[p].option
        /\ Present(store, call[p].pollID)
        /\ call[p].userID \in DOMAIN VotesOf(store, call[p].pollID)
        /\ VotesOf(store, call[p].pollID)[call[p].userID] = call[p].option
        /\ \E w \in DOMAIN VotesOf(store, call[p].pollID) : w # call[p].userID

\* C7 as stated: a vote on a stored poll with an option that is not among
\* the poll's options returns ErrInvalidOption, and the store is unchanged
\* and no replace is pending.
CE_C7_InvalidOption ==
    [][\A p \in Procs :
          ( /\ Starts(p) /\ call'[p].op = "vote"
            /\ Present(store, call'[p].pollID)
            /\ call'[p].option \notin OptionsOf(store, call'[p].pollID)
            /\ err'[p] # "failed to get poll" )
          => /\ err'[p] = "ErrInvalidOption"
             /\ pc'[p] = "idle"
             /\ store' = store]_vars

\* C7 amended: a vote on a stored, active poll with an option that is not
\* among the poll's options returns ErrInvalidOption, and the store is
\* unchanged and no replace is pending.
C7_InvalidOptionActive ==
    [][\A p \in Procs :
          ( /\ Starts(p) /\ call'[p].op = "vote"
            /\ Present(store, call'[p].pollID)
            /\ IsActiveOf(store, call'[p].pollID)
            /\ call'[p].option \notin OptionsOf(store, call'[p].pollID)
            /\ err'[p] # "failed to get poll" )
          => /\ err'[p] = "ErrInvalidOption"
             /\ pc'[p] = "idle"
             /\ store' = store]_vars

\* a vote with an option the active poll does not have has returned
\* ErrInvalidOption
W_C7_InvalidOptionActive ==
    \E p \in Procs :
        /\ pc[p] = "idle" /\ call[p].op = "vote" /\ err[p] = "ErrInvalidOption"
        /\ Present(store, call[p].pollID)
        /\ IsActiveOf(store, call[p].pollID)
        /\ call[p].option \notin OptionsOf(store, call[p].pollID)

\* C8: after an endPoll by the creator has returned success, a vote call
\* that starts on that poll while no other call is in flight returns
\* ErrPollInactive and leaves the store unchanged.
CE_C8_VoteAfterEnd ==
    [][\A p \in Procs, q \in Procs :
          ( /\ Starts(p) /\ call'[p].op = "vote"
            /\ \A r \in Procs : pc[r] = "idle"
            /\ call[q].op = "end" /\ err[q] = "nil"
            /\ call[q].pollID = call'[p].pollID
            /\ Present(store, call'[p].pollID)
            /\ call[q].userID = CreatedByOf(store, call'[p].pollID)
            /\ err'[p] # "failed to get poll" )
          => /\ err'[p] = "ErrPollInactive"
             /\ store' = store]_vars

\* C9: GetResults on a stored poll returns a map that has every option of
\* the poll as a key, 0 for an option nobody voted for, and values that add
\* up to the number of entries of the poll's votes map.
C9_ResultsTally ==
    [][\A p \in Procs :
          ( /\ Starts(p) /\ call'[p].op = "results"
            /\ DecodePoll(store[call'[p].pollID]).kind = "ok"
            /\ err'[p] # "failed to get poll" )
          => LET pl == The(DecodePoll(store[call'[p].pollID]).poll)
             IN /\ err'[p] = "nil"
                /\ results'[p] # {}
                /\ LET r == The(results'[p])
                   IN /\ Range(pl.Options) \subseteq DOMAIN r
                      /\ \A o \in Range(pl.Options) :
                            (\A u \in DOMAIN pl.Votes : pl.Votes[u] # o) => r[o] = 0
                      /\ SumOver(r, DOMAIN r) = Cardinality(DOMAIN pl.Votes)]_vars

\* GetResults has returned a map with an option at 0 and an option with votes
W_C9_ResultsTally ==
    \E p \in Procs :
        /\ pc[p] = "idle" /\ call[p].op = "results" /\ err[p] = "nil"
        /\ results[p] # {}
        /\ \E o1 \in DOMAIN The(results[p]), o2 \in DOMAIN The(results[p]) :
              The(results[p])[o1] = 0 /\ The(results[p])[o2] > 0

\* C10: createPoll with a non-empty title and at least two options fails
\* only when the insert fails; otherwise the returned poll and the stored
\* record are active, have no votes, have the creator as createdBy and have
\* the options of the call in the same order.
C10_CreatePoll ==
    [][\A p \in Procs :
          ( /\ Starts(p) /\ call'[p].op = "create"
            /\ call'[p].title # "" /\ Len(call'[p].options) >= 2 )
          => /\ err'[p] \in {"nil", "failed to create poll"}
             /\ err'[p] = "nil" =>
                  /\ ret'[p] # {}
                  /\ LET pl == The(ret'[p])
                     IN /\ pl.IsActive
                        /\ ~pl.VotesNil /\ DOMAIN pl.Votes = {}
                        /\ pl.CreatedBy = call'[p].userID
                        /\ pl.Title = call'[p].title
                        /\ pl.Options = call'[p].options
                        /\ ~Present(store, pl.ID)
                        /\ Present(store', pl.ID)
                        /\ store'[pl.ID][1] = Str(pl.ID)
                        /\ store'[pl.ID][3] =
                              Arr([i \in DOMAIN call'[p].options |-> Str(call'[p].options[i])])
                        /\ CreatedByOf(store', pl.ID) = call'[p].userID
                        /\ IsActiveOf(store', pl.ID)
                        /\ store'[pl.ID][7].t = "map"
                        /\ DOMAIN RawVotesOf(store', pl.ID) = {}]_vars

\* createPoll has returned a poll whose two options are not in alphabetical
\* order, and the record is stored
W_C10_CreatePoll ==
    \E p \in Procs :
        /\ pc[p] = "idle" /\ call[p].op = "create" /\ err[p] = "nil"
        /\ ret[p] # {}
        /\ The(ret[p]).Options = <<"Green", "Red">>
        /\ Present(store, The(ret[p]).ID)
        /\ DOMAIN RawVotesOf(store, The(ret[p]).ID) = {}

\* C11: createPoll with an empty title or with fewer than two options
\* returns one of the two argument errors, hands out no id, returns no poll
\* and leaves the set of stored records as it was.
C11_CreateInvalid ==
    [][\A p \in Procs :
          (/\ Starts(p)
           /\ call'[p].op = "create"
           /\ (call'[p].title = "" \/ Len(call'[p].options) < 2))
          => /\ err'[p] \in {"empty poll title",
                             "poll must have at least two options"}
             /\ pc'[p] = "idle"
             /\ ret'[p] = {}
             /\ created' = created
             /\ store' = store]_vars

\* a createPoll with an empty title and two options was refused
W_C11_CreateInvalid ==
    \E p \in Procs :
        /\ pc[p] = "idle"
        /\ call[p].op = "create"
        /\ call[p].title = ""
        /\ Len(call[p].options) = 2
        /\ err[p] = "empty poll title"
        /\ ret[p] = {}

\* C12: endPoll by a user who is not the creator of the stored poll fails
\* with ErrNotAuthorized and writes nothing, so an active poll stays active;
\* this holds for an already ended poll too (the creator is tested first).
C12_EndNotCreator ==
    [][\A p \in Procs :
          (/\ Starts(p)
           /\ call'[p].op = "end"
           /\ Present(store, call'[p].pollID)
           /\ CreatedByOf(store, call'[p].pollID) # call'[p].userID
           /\ err'[p] # "failed to get poll")
          => /\ err'[p] = "ErrNotAuthorized"
             /\ pc'[p] = "idle"
             /\ store' = store]_vars

\* endPoll by a non-creator on an already ended poll was refused
W_C12_EndNotCreator ==
    \E p \in Procs :
        /\ pc[p] = "idle"
        /\ call[p].op = "end"
        /\ err[p] = "ErrNotAuthorized"
        /\ Present(store, call[p].pollID)
        /\ CreatedByOf(store, call[p].pollID) # call[p].userID
        /\ ~IsActiveOf(store, call[p].pollID)

\* C13: endPoll by the creator on a stored poll that is already inactive
\* returns nil at once, without a storage write pending or done: the stored
\* record, createdAt and votes included, is the same after the call.
C13_EndAgain ==
    [][\A p \in Procs :
          (/\ Starts(p)
           /\ call'[p].op = "end"
           /\ Present(store, call'[p].pollID)
           /\ CreatedByOf(store, call'[p].pollID) = call'[p].userID
           /\ ~IsActiveOf(store, call'[p].pollID)
           /\ err'[p] # "failed to get poll")
          => /\ err'[p] = "nil"
             /\ pc'[p] = "idle"
             /\ store' = store]_vars

\* two endPoll calls of the creator that did not overlap both returned nil,
\* on a poll no vote was ever written to: the later call found it inactive
W_C13_EndAgain ==
    \E a \in Procs : \E b \in Procs \ {a} :
        /\ pc[a] = "idle" /\ pc[b] = "idle"
        /\ call[a].op = "end" /\ call[b].op = "end"
        /\ call[a].pollID = call[b].pollID
        /\ err[a] = "nil" /\ err[b] = "nil"
        /\ seen[a] = {} /\ seen[b] = {}
        /\ Present(store, call[a].pollID)
        /\ CreatedByOf(store, call[a].pollID) = call[a].userID
        /\ CreatedByOf(store, call[a].pollID) = call[b].userID
        /\ ~IsActiveOf(store, call[a].pollID)
        /\ DOMAIN RawVotesOf(store, call[a].pollID) = {}

\* C14: deletePoll by a user who is not the creator of the stored poll
\* fails with ErrNotAuthorized, with no storage delete pending or done: the
\* record is still stored, unchanged.
C14_DeleteNotCreator ==
    [][\A p \in Procs :
          (/\ Starts(p)
           /\ call'[p].op = "delete"
           /\ Present(store, call'[p].pollID)
           /\ CreatedByOf(store, call'[p].pollID) # call'[p].userID
           /\ err'[p] # "failed to get poll")
          => /\ err'[p] = "ErrNotAuthorized"
             /\ pc'[p] = "idle"
             /\ Present(store', call'[p].pollID)
             /\ store' = store]_vars

\* deletePoll by a non-creator was refused and the record is there
W_C14_DeleteNotCreator ==
    \E p \in Procs :
        /\ pc[p] = "idle"
        /\ call[p].op = "delete"
        /\ err[p] = "ErrNotAuthorized"
        /\ Present(store, call[p].pollID)
        /\ CreatedByOf(store, call[p].pollID) # call[p].userID

\* id was handed out, has no record, and no call on it is in flight
Deleted(id) ==
    /\ \E i \in 1..created : IdNames[i] = id
    /\ ~Present(store, id)
    /\ \A r \in Procs : pc[r] # "idle" => call[r].pollID # id

\* C15: when deletePoll by the creator returns success while no other call
\* is in flight, the poll has no record and no call on it is pending; from
\* such a state on that stays so, and every getPoll, vote, results, endPoll
\* and deletePoll on that id fails with ErrPollNotFound.
C15_AfterDelete ==
    [][/\ \A q \in Procs :
             (/\ Writes(q, "DeletePoll_Delete")
              /\ err'[q] = "nil"
              /\ \A r \in Procs \ {q} : pc[r] = "idle")
             => Deleted(call[q].pollID)'
       /\ \A id \in FreshIds :
             Deleted(id) =>
               /\ Deleted(id)'
               /\ \A p \in Procs :
                     (/\ Starts(p)
                      /\ call'[p].op \in {"get", "vote", "results", "end", "delete"}
                      /\ call'[p].pollID = id)
                     => err'[p] = "ErrPollNotFound"]_vars

\* a getPoll made after the creator's deletePoll had returned success, with
\* the other caller idle, has just failed with ErrPollNotFound
W_C15_AfterDelete ==
    \E p \in Procs : \E q \in Procs \ {p} :
        /\ actor = p
        /\ pc[p] = "idle" /\ pc[q] = "idle"
        /\ call[q].op = "delete" /\ err[q] = "nil"
        /\ call[p].op = "get" /\ err[p] = "ErrPollNotFound"
        /\ call[p].pollID = call[q].pollID
        /\ seen[q] = {}
        /\ Deleted(call[p].pollID)

\* C16: the UpdatePoll of a vote or endPoll call that finds no record under
\* the poll's id fails and creates none: the set of stored ids does not grow.
CE_C16_ReplaceAbsent ==
    [][\A p \in Procs :
          (/\ Writes(p, "HandleVote_Update") \/ Writes(p, "EndPoll_Update")
           /\ ~Present(store, call[p].pollID))
          => /\ err'[p] # "nil"
             /\ ~Present(store', call[p].pollID)]_vars

\* a stored tuple that is a well-formed 7-field record: string, string,
\* array of strings, string, unsigned, boolean, map of string to string
WellFormed(data) ==
    /\ Len(data) = 7
    /\ data[1].t = "string"
    /\ data[2].t = "string"
    /\ data[3].t = "array"
    /\ \A i \in DOMAIN data[3].v : data[3].v[i].t = "string"
    /\ data[4].t = "string"
    /\ data[5].t = "unsigned"
    /\ data[6].t = "boolean"
    /\ data[7].t = "map"
    /\ \A k \in DOMAIN data[7].v : k.t = "string" /\ data[7].v[k].t = "string"

\* C17: getPoll on an id whose stored tuple is not a well-formed record
\* returns an error and no Poll.
CE_C17_GetCorrupt ==
    [][\A p \in Procs :
          (/\ Starts(p)
           /\ call'[p].op = "get"
           /\ Present(store, call'[p].pollID)
           /\ ~WellFormed(store[call'[p].pollID]))
          => /\ err'[p] \notin {"nil", "panic"}
             /\ ret'[p] = {}]_vars

\* C18: listPolls, when the Select itself does not fail, returns nil and
\* exactly the polls decoded from the well-formed stored tuples: a malformed
\* tuple neither aborts the scan nor shows up in the list.
CE_C18_ListIsolates ==
    [][\A p \in Procs :
          (/\ Starts(p)
           /\ call'[p].op = "list"
           /\ err'[p] # "failed to list polls")
          => /\ err'[p] = "nil"
             /\ ret'[p] = {DecodeFields(store[id]) :
                             id \in {i \in PollIds : Present(store, i)
                                                      /\ WellFormed(store[i])}}]_vars

\* C19: the adapter's CreatePoll on an id that has a record fails with an
\* error of its own, one that is not the wrapper every failed Insert gets,
\* and leaves the stored records as they were.
CE_C19_CreateDuplicate ==
    [][\A p \in Procs :
          (/\ Starts(p)
           /\ call'[p].op = "db.create"
           /\ Present(store, call'[p].pollID))
          => /\ err'[p] \notin {"nil", "failed to insert poll"}
             /\ store' = store]_vars

\* C20: the adapter's DeletePoll, the back end answering, returns nil and
\* leaves the id without a record and every other record as it was; on an
\* id that has no record it leaves the whole store as it was, so a second
\* delete of an id changes nothing after the first.
C20_DeleteIdempotent ==
    [][\A p \in Procs :
          (Starts(p) /\ call'[p].op = "db.delete")
          => /\ err'[p] = "nil"
             /\ ~Present(store', call'[p].pollID)
             /\ \A id \in PollIds \ {call'[p].pollID} : store'[id] = store[id]
             /\ ~Present(store, call'[p].pollID) => store' = store]_vars

\* DeletePoll returned nil for an id createPoll would hand out: the direct
\* caller writes records of poll1 only, so that id had no record
W_C20_DeleteIdempotent ==
    \E p \in Procs :
        /\ pc[p] = "idle"
        /\ call[p].op = "db.delete"
        /\ call[p].pollID \in FreshIds
        /\ err[p] = "nil"
        /\ ~Present(store, call[p].pollID)
        /\ Present(store, "poll1")

\* C21: round trip.  For every id that has a record, GetPoll followed by
\* UpdatePoll of the poll it returned leaves the store as it was.
CE_C21_RoundTrip ==
    \A id \in PollIds :
        (Present(store, id) /\ StorageGetPoll(store, id, TRUE).kind = "ok")
        => StorageUpdatePoll(store, The(StorageGetPoll(store, id, TRUE).poll),
                             TRUE).store = store

\* C22: a call made with a cancelled context returns a cancellation error
\* and reads and writes nothing; a call whose context is cancelled between
\* its read and its write does not do the write.
CE_C22_Cancelled ==
    [][\A p \in Procs :
          ctx[p] =>
            /\ Starts(p) => /\ err'[p] = "context canceled"
                            /\ pc'[p] = "idle"
                            /\ store' = store
            /\ (\/ Writes(p, "HandleVote_Update")
                \/ Writes(p, "EndPoll_Update")
                \/ Writes(p, "DeletePoll_Delete"))
               => /\ err'[p] = "context canceled"
                  /\ store' = store]_vars

\* the six command names, and the handler registered under each
HandlerNames ==
    [n \in {"poll-create", "poll-vote", "poll-results", "poll-end",
            "poll-delete", "poll-list"} |->
        CASE n = "poll-create" -> "handlePollCreate"
          [] n = "poll-vote" -> "handlePollVote"
          [] n = "poll-results" -> "handlePollResults"
          [] n = "poll-end" -> "handlePollEnd"
          [] n = "poll-delete" -> "handlePollDelete"
          [] n = "poll-list" -> "handlePollList"]

\* the command string is a registered name, or one after a single '/'
NamesCommand(command) ==
    \/ Len(command) = 1 /\ command[1] \in DOMAIN HandlerNames
    \/ Len(command) = 2 /\ command[1] = "/" /\ command[2] \in DOMAIN HandlerNames

\* C23: HandleCommand on a command that, after one leading '/' is stripped,
\* is not a registered name returns the unknown-command error and no text,
\* runs no handler, calls no Service method and leaves the store as it
\* was; on a registered name it runs the handler registered under that name.
C23_Dispatch ==
    [][\A p \in Procs :
          (actor' = p /\ reply'[p].status = "returned")
          => IF NamesCommand(cmd'[p].command)
               THEN cmd'[p].handler =
                      HandlerNames[cmd'[p].command[Len(cmd'[p].command)]]
               ELSE /\ reply'[p].err # <<>>
                    /\ reply'[p].err[1] = "unknown command: "
                    /\ reply'[p].text = <<>>
                    /\ cmd'[p].handler = "none"
                    /\ cmd'[p].svc = <<>>
                    /\ store' = store
                    /\ created' = created]_vars

\* HandleCommand refused "//poll-vote": one '/' stripped, "/poll-vote" is
\* not a registered name
W_C23_Dispatch ==
    \E p \in Procs :
        /\ reply[p].status = "returned"
        /\ cmd[p].command = <<"/", "/", "poll-vote">>
        /\ cmd[p].handler = "none"
        /\ reply[p].err = <<"unknown command: ", "/", "poll-vote">>

\* the least number of arguments each handler asks for
MinArgs ==
    [h \in {"handlePollCreate", "handlePollVote", "handlePollResults",
            "handlePollEnd", "handlePollDelete", "handlePollList"} |->
        CASE h = "handlePollCreate" -> 3
          [] h = "handlePollVote" -> 2
          [] h = "handlePollList" -> 0
          [] OTHER -> 1]

\* C24: a handler run with fewer arguments than its minimum calls no
\* Service method and leaves the store as it was; what it returns (seen at
\* HandleCommand) is a usage text and the nil error.
C24_Usage ==
    [][\A p \in Procs :
          (/\ actor' = p
           /\ cmd'[p].handler # "none"
           /\ cmd'[p].nargs < MinArgs[cmd'[p].handler])
          => /\ cmd'[p].svc = <<>>
             /\ store' = store
             /\ created' = created
             /\ reply'[p].status = "returned"
                => /\ reply'[p].err = <<>>
                   /\ reply'[p].text \in
                        {<<"Usage: /poll-create">>, <<"Usage: /poll-vote">>,
                         <<"Usage: /poll-results">>, <<"Usage: /poll-end">>,
                         <<"Usage: /poll-delete">>}]_vars

\* HandleCommand answered poll-create with two arguments by the usage text
W_C24_Usage ==
    \E p \in Procs :
        /\ reply[p].status = "returned"
        /\ cmd[p].handler = "handlePollCreate"
        /\ cmd[p].nargs = 2
        /\ cmd[p].svc = <<>>
        /\ reply[p].text = <<"Usage: /poll-create">>
        /\ reply[p].err = <<>>

\* C26: when the last Service method a handler called returned an error,
\* the Command Router's result is no error but a text "Error: <message>",
\* on the way through HandleCommand (HTTP) and through handleSlashCommand.
CE_C26_ErrorReply ==
    [][\A p \in Procs :
          (actor' = p /\ cmd'[p].svcErr # "nil")
          => /\ reply'[p].status \in {"returned", "200", "posted"}
             /\ reply'[p].err = <<>>
             /\ reply'[p].text # <<>>
             /\ reply'[p].text[1] = "Error: "]_vars

\* the texts inside the double-quoted runs of t that are closed, in order
RECURSIVE ClosedRuns(_, _, _, _, _)
ClosedRuns(t, i, open, cur, acc) ==
    IF i > Len(t) THEN acc
    ELSE IF t[i] = "\""
      THEN IF open THEN ClosedRuns(t, i + 1, FALSE, <<>>, Append(acc, cur))
                   ELSE ClosedRuns(t, i + 1, TRUE, <<>>, acc)
    ELSE ClosedRuns(t, i + 1, open, IF open THEN Append(cur, t[i]) ELSE cur, acc)

\* the text after the last double quote of t when that quote is never closed
RECURSIVE OpenTail(_, _, _, _)
OpenTail(t, i, open, cur) ==
    IF i > Len(t) THEN [open |-> open, tail |-> cur]
    ELSE IF t[i] = "\"" THEN OpenTail(t, i + 1, ~open, <<>>)
    ELSE OpenTail(t, i + 1, open, IF open THEN Append(cur, t[i]) ELSE cur)

\* C25: parseCommandArgs returns the text inside every closed double-quoted
\* run as one argument, returns the text after a quote that is never closed
\* as its last argument, and returns no argument that holds a double quote.
CE_C25_Quoted ==
    /\ \A i \in DOMAIN ClosedRuns(parseIn, 1, FALSE, <<>>, <<>>) :
          ClosedRuns(parseIn, 1, FALSE, <<>>, <<>>)[i] \in Range(parseOut)
    /\ LET o == OpenTail(parseIn, 1, FALSE, <<>>) IN
          (o.open /\ o.tail # <<>>)
          => (parseOut # <<>> /\ parseOut[Len(parseOut)] = o.tail)
    /\ \A i \in DOMAIN parseOut : "\"" \notin Range(parseOut[i])

\* C27: main makes at most 3 connection attempts with one 2-second sleep
\* between two attempts; after an attempt that succeeded it makes no other
\* and goes on; after 3 failed attempts it exits with status 1 and the
\* Service is never constructed; the connection loop is left eventually.
C27_Startup ==
    /\ [](/\ boot.tried <= 3
          /\ \A i \in DOMAIN boot.slept : boot.slept[i] = 2
          /\ Len(boot.slept) =
                IF boot.at = "connect" THEN boot.tried
                ELSE IF boot.tried = 0 THEN 0 ELSE boot.tried - 1
          /\ boot.service => boot.err = "nil"
          /\ (boot.tried = 3 /\ boot.err # "nil" /\ boot.at = "exited")
             => (boot.exit = "1" /\ ~boot.service))
    /\ [][/\ (boot.tried >= 1 /\ boot.err = "nil")
             => boot'.tried = boot.tried
          /\ (boot.at = "loopdone" /\ boot' # boot)
             => IF boot.err = "nil"
                  THEN boot'.service /\ boot'.exit = "none"
                  ELSE boot.tried = 3 /\ boot'.at = "exited"
                       /\ boot'.exit = "1" /\ ~boot'.service]_vars
    /\ <>(boot.at \notin {"connect", "sleep", "loopdone"})

\* three attempts failed, two sleeps of 2 seconds lay between them, the
\* process has exited with status 1 and no Service exists
W_C27_Startup ==
    /\ boot.at = "exited"
    /\ boot.exit = "1"
    /\ boot.tried = 3
    /\ boot.slept = <<2, 2>>
    /\ ~boot.service

\* C28: no NotifyChannel call returns a failure, with or without a
\* notifier attached, and no domain operation returns an error that comes
\* from the notifier.
CE_C28_NotifyNeverFails ==
    /\ notify.ret \in {"none", "nil"}
    /\ \A p \in Procs : err[p] # "post failed"

\* C29: vote on an id with no stored poll returns ErrPollNotFound; on a
\* stored poll that is inactive it returns ErrPollInactive, whether or not
\* the option is one of the poll's; on an active poll with an option outside
\* its options it returns ErrInvalidOption; in the three cases the call is
\* over without a replace pending and the store is as it was.
C29_VoteOrder ==
    [][\A p \in Procs :
          (/\ Starts(p)
           /\ call'[p].op = "vote"
           /\ err'[p] # "failed to get poll")
          => LET id == call'[p].pollID IN
             IF ~Present(store, id)
               THEN err'[p] = "ErrPollNotFound" /\ pc'[p] = "idle"
                    /\ store' = store
             ELSE IF ~IsActiveOf(store, id)
               THEN err'[p] = "ErrPollInactive" /\ pc'[p] = "idle"
                    /\ store' = store
             ELSE IF call'[p].option \notin OptionsOf(store, id)
               THEN err'[p] = "ErrInvalidOption" /\ pc'[p] = "idle"
                    /\ store' = store
             ELSE TRUE]_vars

\* a vote for an option the poll does not have, on an ended poll, was
\* refused as ErrPollInactive
W_C29_VoteOrder ==
    \E p \in Procs :
        /\ pc[p] = "idle"
        /\ call[p].op = "vote"
        /\ err[p] = "ErrPollInactive"
        /\ Present(store, call[p].pollID)
        /\ ~IsActiveOf(store, call[p].pollID)
        /\ call[p].option \notin OptionsOf(store, call[p].pollID)

\* C30: a createPoll, vote, endPoll or deletePoll call is one step that
\* reads (createPoll: inserts) and at most one step that writes; a failed
\* read or insert ends the call with that failure and the store as it was;
\* the write step ends the call whatever its outcome, and when it failed
\* the failure is returned and the store is as it was.
C30_NoRetry ==
    [][\A p \in Procs :
          /\ (Starts(p) /\ call'[p].op \in {"create", "vote", "end", "delete"})
             => /\ pc'[p] \in {"idle", "HandleVote_Update", "EndPoll_Update",
                                "DeletePoll_Delete"}
                /\ pc'[p] # "idle" => (store' = store /\ err'[p] = "none")
                /\ err'[p] \in {"failed to get poll", "failed to create poll"}
                   => (pc'[p] = "idle" /\ store' = store)
          /\ \A l \in {"HandleVote_Update", "EndPoll_Update", "DeletePoll_Delete"} :
                Writes(p, l)
                => /\ pc'[p] = "idle"
                   /\ call'[p] = call[p]
                   /\ err'[p] \in {"nil", "failed to update poll",
                                    "failed to delete poll"}
                   /\ err'[p] # "nil" => store' = store]_vars

\* a vote whose UpdatePoll failed has returned the failure and the stored
\* poll holds no vote of that user
W_C30_NoRetry ==
    \E p \in Procs :
        /\ pc[p] = "idle"
        /\ call[p].op = "vote"
        /\ err[p] = "failed to update poll"
        /\ Present(store, call[p].pollID)
        /\ call[p].userID \notin DOMAIN VotesOf(store, call[p].pollID)

\* no other caller was between its read and its write when p did its read,
\* and none has done a read since
Alone(p) == seen[p] = {} /\ \A q \in Procs \ {p} : p \notin seen[q]

CE_C32_ListAll == scan.listed => scan.polls = scan.rows

\* C33: an id that createPoll handed out and that has no record any more
\* (its poll was deleted) never has a record again.
CE_C33_StaysDeleted ==
    [][\A id \in FreshIds :
          (/\ \E i \in 1..created : IdNames[i] = id
           /\ ~Present(store, id))
          => ~Present(store', id)]_vars

\* C34: in the text of a successful formatResults call the total vote
\* count (the number of votes of the poll read first) is the sum of the
\* counts rendered for the poll's options (taken from the map of GetResults).
CE_C34_Snapshot ==
    \A p \in Procs :
        (pc[p] = "idle" /\ call[p].op = "format" /\ err[p] = "nil")
        => LET pl == The(ret[p])
               r == The(results[p])
           IN Cardinality(DOMAIN pl.Votes) = SumOver(r, Range(pl.Options))

TypeOK ==
    /\ created \in 0..Len(IdNames)
    /\ \A p \in Procs : pc[p] \in {"idle", "HandleVote_Update", "EndPoll_Update", "DeletePoll_Delete",
                 "FormatPollResults_GetResults"}
    /\ \A p \in Procs : (pc[p] = "idle") = (poll[p] = {})
    /\ actor \in Procs \cup {"none"}

====
